---------------------------- MODULE Spec2Model ----------------------------
(***************************************************************************)
(* A model of the algorithms of bob_dylan_lyrics:                          *)
(*                                                                         *)
(*   - the song index fold of read_songs_index (specification Spec),       *)
(*   - read_songs_index from the records of the index file on: the sort    *)
(*     by release date, the type check, the emptiness check and the fold   *)
(*     (specification SpecLoad),                                           *)
(*   - find_annotation_indices and remove_inline_annotation_marks,         *)
(*     applied to one line (specification SpecLine),                       *)
(*   - the paragraph split and the line rendering of htmlify_song          *)
(*     (specification SpecSong),                                           *)
(*   - get_date, applied to one string (specification SpecDate),           *)
(*   - sort_titles, applied to one list of titles (specification           *)
(*     SpecTitles).                                                        *)
(*                                                                         *)
(* Strings are sequences of one-character strings.  Python's None is the   *)
(* string "None".                                                          *)
(***************************************************************************)
EXTENDS Integers, Sequences, FiniteSets, TLC

VARIABLES
    pc,                \* where the modelled function is: "fold", "done" (the
                       \* index fold); "call", "returned", "raised", "stripped"
                       \* (one call of a function of a line);
                       \* "split", "render", "done", "raised" (htmlify_song);
                       \* "sort", "check", "build", "returned", "raised"
                       \* (read_songs_index from the index file on);
                       \* "get_date", "returned", "raised" (one call of get_date);
                       \* "sort_titles", "returned", "raised" (one call of it)
    album_ix,          \* number of the album the outer loop is in (0: none yet)
    seen,              \* the (album, song) appearances processed so far
    song_files_dict,   \* the song index being built
    line,              \* find_annotation_indices: the line it is called with
    annotations,       \* find_annotation_indices: the marker numbers it is called with
    indices,           \* find_annotation_indices: its list of offsets
    rendering_text,    \* remove_inline_annotation_marks: its result
    song_lines,        \* htmlify_song: the lines of the lyrics file
    line_ind,          \* htmlify_song: number of lines the first loop has taken
    paragraphs,        \* htmlify_song: the paragraphs closed so far
    current_paragraph, \* htmlify_song: the lines of the paragraph being read
    footnotes,         \* htmlify_song: its list "annotations", the footnote texts
    par_ix,            \* htmlify_song: the paragraph the second loop is in
    elem_ix,           \* htmlify_song: the next line of that paragraph
    line_elem,         \* htmlify_song: the line last taken by the second loop
    annotation_inds,   \* htmlify_song: the offsets of that line, as last changed
    inds_used,         \* htmlify_song: the values of ind, one per anchor inserted
    paragraph_elem,    \* htmlify_song: the div strings of the paragraph being built
    columns_div,       \* htmlify_song: the paragraph elements appended so far
    annotation_section,\* htmlify_song: the named anchors of the footnotes
    error,             \* the exception that ended htmlify_song or
                       \* read_songs_index, "" if none
    records,           \* read_songs_index: the records of the index file
    collections,       \* read_songs_index: the records as sorted(...) gives them
    rec_ix,            \* read_songs_index: number of records its first loop has taken
    albums,            \* read_songs_index: its list of Album objects
    song_ix,           \* read_songs_index: number of songs of the current album
                       \* the inner loop has taken
    date_string,       \* get_date: the string it is called with
    date_value,        \* get_date: the datetime it returns, as a number
    titles,            \* sort_titles: the titles it is called with
    filter_char,       \* sort_titles: the character to filter on, or None
    sorted_titles      \* sort_titles: the titles its result yields

indexVars == <<album_ix, seen, song_files_dict>>

lineVars == <<line, annotations, indices, rendering_text>>

splitVars == <<line_ind, paragraphs, current_paragraph, footnotes>>

renderVars ==
    <<par_ix, elem_ix, line_elem, annotation_inds, inds_used, paragraph_elem,
      columns_div, annotation_section>>

songVars == <<song_lines, splitVars, renderVars, error>>

loadVars == <<records, collections, rec_ix, albums, song_ix>>

dateVars == <<date_string, date_value>>

titleVars == <<titles, filter_char, sorted_titles>>

vars == <<pc, indexVars, lineVars, songVars, loadVars, dateVars, titleVars>>

----------------------------------------------------------------------------
(* Bounds of the model *)

MaxAlbums == 2
MaxAppearances == 2
MaxTokens == 4
MaxLines == 3
MaxRecords == 2
MaxWords == 4
MaxTitles == 3

----------------------------------------------------------------------------
(* Values of the metadata *)

None == "None"

(* None where a string, a sequence of characters, is expected *)
NoneString == <<None>>

file_id_types_to_skip == {"instrumental", "not_written_or_peformed_by_dylan"}

SongKeys == {"s1", "s2"}
ActualNames == {None, "", "s1"}
FileIds == {"f1", "f2"}
InstrumentalValues == {"", "true"}
WrittenAndPerformedByValues == {{}, {"performed_by"}}

(* Song.__init__: the attributes of a song that read_songs_index reads *)
Song ==
    [name : SongKeys,
     actual_name : ActualNames,
     file_id : FileIds,
     instrumental : InstrumentalValues,
     written_and_performed_by : WrittenAndPerformedByValues]

Digits == {"0", "1", "2", "3", "4", "5", "6", "7", "8", "9"}

Whitespace == {" "}

(* Python truthiness of the three attributes the fold tests *)
TruthyStr(x) == x # None /\ x # ""

TruthyDict(x) == x # {}

----------------------------------------------------------------------------
(* The fold of read_songs_index *)

SongNameDisplayOnly(song) == song.name

(* song_name = song.actual_name if song.actual_name else song.name *)
SongName(song) ==
    IF TruthyStr(song.actual_name) THEN song.actual_name ELSE song.name

SongFileIdAuthorFirst(song) ==
    IF TruthyDict(song.written_and_performed_by)
    THEN "not_written_or_peformed_by_dylan"
    ELSE IF TruthyStr(song.instrumental) THEN "instrumental"
    ELSE song.file_id

(* the if/elif/else that computes song_file_id *)
SongFileId(song) ==
    IF TruthyStr(song.instrumental) THEN "instrumental"
    ELSE IF TruthyDict(song.written_and_performed_by)
    THEN "not_written_or_peformed_by_dylan"
    ELSE song.file_id

(* file_album_dict of album number a *)
FileAlbumDict(a) == [name |-> a, file_id |-> a]

NewGroup(song_file_id, fad) == [file_id |-> song_file_id, albums |-> <<fad>>]

(* index of the first group of entry whose file_id is song_file_id, 0 if none:
   the for loop with its break *)
FirstGroupWith(entry, song_file_id) ==
    LET hits == {k \in 1..Len(entry) : entry[k].file_id = song_file_id}
    IN IF hits = {} THEN 0 ELSE CHOOSE k \in hits : \A h \in hits : k <= h

AddToIndexNoScan(dict, song_name, song_file_id, fad) ==
    IF song_name \notin DOMAIN dict
    THEN dict @@ (song_name :> <<NewGroup(song_file_id, fad)>>)
    ELSE [dict EXCEPT ![song_name] = Append(@, NewGroup(song_file_id, fad))]

AddToIndexMergeAll(dict, song_name, song_file_id, fad) ==
    IF song_name \notin DOMAIN dict
    THEN dict @@ (song_name :> <<NewGroup(song_file_id, fad)>>)
    ELSE LET k == FirstGroupWith(dict[song_name], song_file_id)
         IN IF k # 0
            THEN [dict EXCEPT ![song_name][k].albums = Append(@, fad)]
            ELSE [dict EXCEPT ![song_name] = Append(@, NewGroup(song_file_id, fad))]

AddToIndexPrepend(dict, song_name, song_file_id, fad) ==
    IF song_name \notin DOMAIN dict
    THEN dict @@ (song_name :> <<NewGroup(song_file_id, fad)>>)
    ELSE LET k == IF song_file_id \notin file_id_types_to_skip
                  THEN FirstGroupWith(dict[song_name], song_file_id)
                  ELSE 0
         IN IF k # 0
            THEN [dict EXCEPT ![song_name][k].albums = <<fad>> \o @]
            ELSE [dict EXCEPT ![song_name] = Append(@, NewGroup(song_file_id, fad))]

AddToIndexReplace(dict, song_name, song_file_id, fad) ==
    IF song_name \notin DOMAIN dict
    THEN dict @@ (song_name :> <<NewGroup(song_file_id, fad)>>)
    ELSE LET k == IF song_file_id \notin file_id_types_to_skip
                  THEN FirstGroupWith(dict[song_name], song_file_id)
                  ELSE 0
         IN IF k # 0
            THEN [dict EXCEPT ![song_name][k].albums = Append(@, fad)]
            ELSE [dict EXCEPT ![song_name] = <<NewGroup(song_file_id, fad)>>]

AddToIndexOncePerAlbum(dict, song_name, song_file_id, fad) ==
    IF song_name \notin DOMAIN dict
    THEN dict @@ (song_name :> <<NewGroup(song_file_id, fad)>>)
    ELSE LET k == IF song_file_id \notin file_id_types_to_skip
                  THEN FirstGroupWith(dict[song_name], song_file_id)
                  ELSE 0
         IN IF k # 0
            THEN IF \E i \in 1..Len(dict[song_name][k].albums) :
                        dict[song_name][k].albums[i] = fad
                 THEN dict
                 ELSE [dict EXCEPT ![song_name][k].albums = Append(@, fad)]
            ELSE [dict EXCEPT ![song_name] = Append(@, NewGroup(song_file_id, fad))]

AddToIndexSkipInstrumentalOnly(dict, song_name, song_file_id, fad) ==
    IF song_name \notin DOMAIN dict
    THEN dict @@ (song_name :> <<NewGroup(song_file_id, fad)>>)
    ELSE LET k == IF song_file_id # "instrumental"
                  THEN FirstGroupWith(dict[song_name], song_file_id)
                  ELSE 0
         IN IF k # 0
            THEN [dict EXCEPT ![song_name][k].albums = Append(@, fad)]
            ELSE [dict EXCEPT ![song_name] = Append(@, NewGroup(song_file_id, fad))]

AddToIndexNewGroupFirst(dict, song_name, song_file_id, fad) ==
    IF song_name \notin DOMAIN dict
    THEN dict @@ (song_name :> <<NewGroup(song_file_id, fad)>>)
    ELSE LET k == IF song_file_id \notin file_id_types_to_skip
                  THEN FirstGroupWith(dict[song_name], song_file_id)
                  ELSE 0
         IN IF k # 0
            THEN [dict EXCEPT ![song_name][k].albums = Append(@, fad)]
            ELSE [dict EXCEPT ![song_name] = <<NewGroup(song_file_id, fad)>> \o @]

(* the body of the inner loop from "if song_name not in song_files_dict" on *)
AddToIndex(dict, song_name, song_file_id, fad) ==
    IF song_name \notin DOMAIN dict
    THEN dict @@ (song_name :> <<NewGroup(song_file_id, fad)>>)
    ELSE LET k == IF song_file_id \notin file_id_types_to_skip
                  THEN FirstGroupWith(dict[song_name], song_file_id)
                  ELSE 0
         IN IF k # 0
            THEN [dict EXCEPT ![song_name][k].albums = Append(@, fad)]
            ELSE [dict EXCEPT ![song_name] = Append(@, NewGroup(song_file_id, fad))]

(* the keys of the songs of album a processed so far: the songs of an album
   are the items of a mapping, so no key occurs twice in one album *)
KeysSeenIn(a) == {seen[k].song.name : k \in {j \in 1..Len(seen) : seen[j].album = a}}

(* get_date not called, sort_titles not called *)
DateIdle ==
    /\ date_string = <<>> /\ date_value = 0
    /\ titles = <<>> /\ filter_char = <<"None">> /\ sorted_titles = <<>>

(* read_songs_index with no index file read *)
LoadIdle ==
    /\ records = <<>> /\ collections = <<>> /\ rec_ix = 0
    /\ albums = <<>> /\ song_ix = 0

(* htmlify_song before its first loop, with no lyrics file read *)
SongIdle ==
    /\ song_lines = <<>> /\ line_ind = 0
    /\ paragraphs = <<>> /\ current_paragraph = <<>> /\ footnotes = <<>>
    /\ par_ix = 1 /\ elem_ix = 1
    /\ line_elem = <<>> /\ annotation_inds = <<>> /\ inds_used = <<>>
    /\ paragraph_elem = <<>> /\ columns_div = <<>> /\ annotation_section = <<>>
    /\ error = ""

Init ==
    /\ pc = "fold"
    /\ album_ix = 0
    /\ seen = <<>>
    /\ song_files_dict = <<>>
    /\ line = <<>> /\ annotations = <<>> /\ indices = <<>>
    /\ rendering_text = <<>>
    /\ SongIdle
    /\ LoadIdle
    /\ DateIdle

(* the outer loop takes the next album *)
NextAlbum ==
    /\ pc = "fold"
    /\ album_ix < MaxAlbums
    /\ album_ix' = album_ix + 1
    /\ UNCHANGED <<pc, seen, song_files_dict, lineVars, songVars, loadVars, dateVars, titleVars>>

(* one iteration of the inner loop, on the next song of the current album *)
ProcessSong ==
    /\ pc = "fold"
    /\ album_ix >= 1
    /\ Len(seen) < MaxAppearances
    /\ \E song \in Song :
        /\ song.name \notin KeysSeenIn(album_ix)
        /\ seen' = Append(seen, [album |-> album_ix, song |-> song])
        /\ song_files_dict' = AddToIndex(song_files_dict, SongName(song),
                                         SongFileId(song), FileAlbumDict(album_ix))
    /\ UNCHANGED <<pc, album_ix, lineVars, songVars, loadVars, dateVars, titleVars>>

(* both loops are over: return albums, song_files_dict *)
Return ==
    /\ pc = "fold"
    /\ album_ix >= 1
    /\ pc' = "done"
    /\ UNCHANGED <<album_ix, seen, song_files_dict, lineVars, songVars, loadVars, dateVars, titleVars>>

Next == NextAlbum \/ ProcessSong \/ Return

Spec == Init /\ [][Next]_vars

----------------------------------------------------------------------------
(* What the claims about the index speak of *)

(* "present": the attribute is given and is not the empty string *)
CanonicalNameOf(s) ==
    IF s.actual_name \notin {None, ""} THEN s.actual_name ELSE s.name

CategoryOf(s) ==
    IF s.instrumental # "" THEN "instrumental"
    ELSE IF s.written_and_performed_by # {}
    THEN "not_written_or_peformed_by_dylan"
    ELSE s.file_id

Categories == FileIds \cup file_id_types_to_skip

CanonicalNames == SongKeys \cup (ActualNames \ {None, ""})

Entry(key) == IF key \in DOMAIN song_files_dict THEN song_files_dict[key] ELSE <<>>

(* the processed appearances of canonical song key with category c, in the
   order they were processed *)
AppearancesOf(key, c) ==
    SelectSeq(seen, LAMBDA x : CanonicalNameOf(x.song) = key /\ CategoryOf(x.song) = c)

AlbumRefsOf(key, c) ==
    [k \in 1..Len(AppearancesOf(key, c)) |-> FileAlbumDict(AppearancesOf(key, c)[k].album)]

GroupsOf(key, c) == SelectSeq(Entry(key), LAMBDA g : g.file_id = c)

(* C1: after any prefix of the appearances, an entry holds at most one group
   per category outside the skip set: none when the song has not appeared
   with that category, and one, holding one album per appearance, when it
   has (a repeated appearance is appended to the group, no second group is
   made). *)
C1_OneGroupPerNonSkipCategory ==
    \A key \in CanonicalNames \cup DOMAIN song_files_dict :
        \A c \in Categories \ file_id_types_to_skip :
            LET n == Len(AppearancesOf(key, c))
                gs == GroupsOf(key, c)
            IN /\ Len(gs) = (IF n = 0 THEN 0 ELSE 1)
               /\ n > 0 => Len(gs[1].albums) = n

C1_Witness ==
    \E key \in DOMAIN song_files_dict :
        \E c \in Categories \ file_id_types_to_skip :
            /\ Len(AppearancesOf(key, c)) = 2
            /\ Len(GroupsOf(key, c)) = 1

(* C2: every appearance with a category of the skip set makes a group of its
   own: per song and skip category, there are as many groups as appearances. *)
C2_SkipGroupPerAppearance ==
    \A key \in CanonicalNames \cup DOMAIN song_files_dict :
        \A c \in file_id_types_to_skip :
            Len(GroupsOf(key, c)) = Len(AppearancesOf(key, c))

C2_Witness ==
    \E key \in DOMAIN song_files_dict :
        /\ Len(GroupsOf(key, "instrumental")) = 2
        /\ Len(seen) = 2
        /\ seen[1].album # seen[2].album
        /\ \A k \in 1..2 : CategoryOf(seen[k].song) = "instrumental"

(* C3: the album list of a group is the list of the albums of its
   appearances, in the order they were processed: [A, B] for a song on album
   A and then on album B with the same category outside the skip set; the
   k-th group of a skip category holds the album of the k-th appearance. *)
C3_AlbumsInProcessingOrder ==
    \A key \in DOMAIN song_files_dict :
        /\ \A g \in 1..Len(Entry(key)) :
               Entry(key)[g].file_id \notin file_id_types_to_skip
                   => Entry(key)[g].albums = AlbumRefsOf(key, Entry(key)[g].file_id)
        /\ \A c \in file_id_types_to_skip :
               \A k \in 1..Len(GroupsOf(key, c)) :
                   /\ k <= Len(AlbumRefsOf(key, c))
                   /\ GroupsOf(key, c)[k].albums = <<AlbumRefsOf(key, c)[k]>>

C3_Witness ==
    \E key \in DOMAIN song_files_dict :
        \E g \in 1..Len(Entry(key)) :
            /\ Entry(key)[g].file_id \notin file_id_types_to_skip
            /\ Entry(key)[g].albums = <<FileAlbumDict(1), FileAlbumDict(2)>>

(* the appearance a step of the fold has just processed *)
JustProcessed == seen'[Len(seen')]

(* C9: the key of an appearance is its canonical name, actual_name when
   present and the display name otherwise, and nothing else decides the
   entry: a step of the fold puts the album of the appearance into the entry
   of that name and leaves every other entry as it was, so two appearances
   share an entry exactly when their canonical names are equal. *)
C9_CanonicalNameIsTheKey ==
    [][seen' # seen =>
        LET a == JustProcessed
            key == IF a.song.actual_name \notin {None, ""}
                   THEN a.song.actual_name
                   ELSE a.song.name
        IN /\ DOMAIN song_files_dict' = DOMAIN song_files_dict \cup {key}
           /\ \A k \in DOMAIN song_files_dict \ {key} :
                  song_files_dict'[k] = song_files_dict[k]
           /\ key \in DOMAIN song_files_dict
                  => song_files_dict'[key] # song_files_dict[key]
           /\ \E g \in 1..Len(song_files_dict'[key]) :
                  LET als == song_files_dict'[key][g].albums
                  IN als[Len(als)] = FileAlbumDict(a.album)
      ]_vars

C9_Witness ==
    /\ Len(seen) = 2
    /\ seen[1].song.name # seen[2].song.name
    /\ seen[1].album # seen[2].album
    /\ CategoryOf(seen[1].song) # CategoryOf(seen[2].song)
    /\ CanonicalNameOf(seen[1].song) = CanonicalNameOf(seen[2].song)
    /\ DOMAIN song_files_dict = {CanonicalNameOf(seen[1].song)}
    /\ Len(Entry(CanonicalNameOf(seen[1].song))) = 2

(* C10: one category per appearance: 'instrumental' when the instrumental
   flag is set, whatever the other attributes; else
   'not_written_or_peformed_by_dylan' when written_and_performed_by is not
   empty; else the file ID of the song.  A step of the fold records the album
   in exactly one group, and that group has this category. *)
C10_CategoryPriority ==
    [][seen' # seen =>
        LET a == JustProcessed
            cat == IF a.song.instrumental # "" THEN "instrumental"
                   ELSE IF a.song.written_and_performed_by # {}
                   THEN "not_written_or_peformed_by_dylan"
                   ELSE a.song.file_id
            old(key) == IF key \in DOMAIN song_files_dict
                        THEN song_files_dict[key] ELSE <<>>
        IN \E key \in DOMAIN song_files_dict' :
             \E g \in 1..Len(song_files_dict'[key]) :
               /\ song_files_dict'[key][g].file_id = cat
               /\ song_files_dict'[key][g].albums =
                    (IF g <= Len(old(key)) THEN old(key)[g].albums ELSE <<>>)
                        \o <<FileAlbumDict(a.album)>>
               /\ \A k \in DOMAIN song_files_dict' :
                    \A h \in 1..Len(song_files_dict'[k]) :
                      (k # key \/ h # g) =>
                          /\ h <= Len(old(k))
                          /\ song_files_dict'[k][h] = old(k)[h]
      ]_vars

C10_Witness ==
    /\ Len(seen) = 2
    /\ seen[1].song.instrumental # ""
    /\ seen[1].song.written_and_performed_by # {}
    /\ seen[2].song.instrumental = ""
    /\ seen[2].song.written_and_performed_by # {}
    /\ \E key \in DOMAIN song_files_dict :
           /\ Len(Entry(key)) = 2
           /\ Entry(key)[1].file_id = "instrumental"
           /\ Entry(key)[2].file_id = "not_written_or_peformed_by_dylan"

(* lst begins with pre *)
IsPrefix(pre, lst) == Len(pre) <= Len(lst) /\ SubSeq(lst, 1, Len(pre)) = pre

(* C20: during one pass the index only grows: a step of the fold removes no
   entry, removes or reorders no group and changes the category of none, and
   the album list of every group after the step begins with its list before
   the step. *)
C20_IndexOnlyGrows ==
    [][\A key \in DOMAIN song_files_dict :
          /\ key \in DOMAIN song_files_dict'
          /\ Len(song_files_dict'[key]) >= Len(song_files_dict[key])
          /\ \A g \in 1..Len(song_files_dict[key]) :
                /\ song_files_dict'[key][g].file_id = song_files_dict[key][g].file_id
                /\ IsPrefix(song_files_dict[key][g].albums,
                            song_files_dict'[key][g].albums)
      ]_vars

C20_Witness ==
    /\ Len(seen) = 2
    /\ \E key \in DOMAIN song_files_dict :
           /\ Len(Entry(key)) = 2
           /\ Entry(key)[1].file_id \notin file_id_types_to_skip
           /\ Entry(key)[2].file_id \notin file_id_types_to_skip
           /\ Entry(key)[1].albums = <<FileAlbumDict(seen[1].album)>>
           /\ Entry(key)[2].albums = <<FileAlbumDict(seen[2].album)>>

(* the number of album references of all the groups of an entry *)
RECURSIVE ReferenceCount(_)
ReferenceCount(entry) ==
    IF entry = <<>> THEN 0
    ELSE Len(Head(entry).albums) + ReferenceCount(Tail(entry))

(* the number of processed appearances with canonical name key *)
AppearanceCount(key) ==
    Cardinality({k \in 1..Len(seen) : CanonicalNameOf(seen[k].song) = key})

(* C26: after any prefix of the appearances the keys of the index are the
   canonical names seen so far, and the album references of an entry, over
   all its groups, are as many as the processed appearances of that name. *)
C26_OneReferencePerAppearance ==
    /\ DOMAIN song_files_dict = {CanonicalNameOf(seen[k].song) : k \in 1..Len(seen)}
    /\ \A key \in DOMAIN song_files_dict :
           ReferenceCount(song_files_dict[key]) = AppearanceCount(key)

C26_Witness ==
    /\ Len(seen) = 2
    /\ seen[1].album = seen[2].album
    /\ CanonicalNameOf(seen[1].song) = CanonicalNameOf(seen[2].song)
    /\ CategoryOf(seen[1].song) = CategoryOf(seen[2].song)
    /\ CategoryOf(seen[1].song) \notin file_id_types_to_skip
    /\ \E key \in DOMAIN song_files_dict :
           /\ Len(Entry(key)) = 1
           /\ Entry(key)[1].albums
                  = <<FileAlbumDict(seen[1].album), FileAlbumDict(seen[1].album)>>

(* C27: in every state of the fold a group of a category of the skip set
   holds exactly one album, and no group of any category is without album. *)
C27_SkipGroupsHoldOneAlbum ==
    \A key \in DOMAIN song_files_dict :
        \A g \in 1..Len(song_files_dict[key]) :
            /\ Len(song_files_dict[key][g].albums) >= 1
            /\ song_files_dict[key][g].file_id \in file_id_types_to_skip
                   => Len(song_files_dict[key][g].albums) = 1

C27_Witness ==
    /\ Len(seen) = 2
    /\ \A k \in 1..2 : CategoryOf(seen[k].song) = "not_written_or_peformed_by_dylan"
    /\ \E key \in DOMAIN song_files_dict :
           /\ Len(Entry(key)) = 2
           /\ \A g \in 1..2 :
                  /\ Entry(key)[g].file_id = "not_written_or_peformed_by_dylan"
                  /\ Len(Entry(key)[g].albums) = 1

(* C28: a step of the fold that processes an appearance changes only the
   entry of the canonical name of the appearance, and in that entry either
   one group, which is of the category of the appearance, or nothing but for
   one new group of that category added at the end. *)
C28_OnlyOwnGroupChanges ==
    [][seen' # seen =>
        LET a == JustProcessed
            key == CanonicalNameOf(a.song)
            cat == CategoryOf(a.song)
            before == Entry(key)
            after == song_files_dict'[key]
        IN /\ DOMAIN song_files_dict' = DOMAIN song_files_dict \cup {key}
           /\ \A k \in DOMAIN song_files_dict \ {key} :
                  song_files_dict'[k] = song_files_dict[k]
           /\ \/ /\ Len(after) = Len(before)
                 /\ \E g \in 1..Len(after) :
                        /\ after[g].file_id = cat
                        /\ after[g] # before[g]
                        /\ \A h \in 1..Len(after) : h # g => after[h] = before[h]
              \/ /\ Len(after) = Len(before) + 1
                 /\ SubSeq(after, 1, Len(before)) = before
                 /\ after[Len(after)].file_id = cat
      ]_vars

C28_Witness ==
    /\ Len(seen) = 2
    /\ CanonicalNameOf(seen[1].song) = CanonicalNameOf(seen[2].song)
    /\ CategoryOf(seen[1].song) = "instrumental"
    /\ CategoryOf(seen[2].song) \notin file_id_types_to_skip
    /\ \E key \in DOMAIN song_files_dict :
           /\ Len(Entry(key)) = 2
           /\ Entry(key)[1].file_id = "instrumental"
           /\ Entry(key)[2].file_id = CategoryOf(seen[2].song)

----------------------------------------------------------------------------
(* read_songs_index from the index file on: the sort of the records by
   release date, the loop that checks their types and makes the albums, the
   test that there is an album, and the fold over the albums *)

(* The release dates of the index file *)
ReleaseDates ==
    {<<"M", "a", "y", " ", "2", ",", " ", "1", "9", "6", "3">>,
     <<"M", "a", "y", " ", "2", ",", " ", "1", "9", "6", "3", " ", "(", "m", "o", "n", "o", ")">>,
     <<"J", "a", "n", "u", "a", "r", "y", " ", "1", "4", ",", " ", "1", "9", "9", "2">>,
     <<"1", "9", "6", "3">>}

(* the words of s[p..]: the parts between the runs of whitespace; word is
   the word being read *)
RECURSIVE WordsFrom(_, _, _)
WordsFrom(s, p, word) ==
    IF p > Len(s) THEN (IF word = <<>> THEN <<>> ELSE <<word>>)
    ELSE IF s[p] \in Whitespace
    THEN (IF word = <<>> THEN <<>> ELSE <<word>>) \o WordsFrom(s, p + 1, <<>>)
    ELSE WordsFrom(s, p + 1, Append(word, s[p]))

(* x.split() *)
SplitWords(s) == WordsFrom(s, 1, <<>>)

LowerOf ==
    ("A" :> "a") @@ ("B" :> "b") @@ ("C" :> "c") @@ ("D" :> "d") @@ ("E"
    :> "e") @@ ("F" :> "f") @@ ("G" :> "g") @@ ("H" :> "h") @@ ("I" :>
    "i") @@ ("J" :> "j") @@ ("K" :> "k") @@ ("L" :> "l") @@ ("M" :> "m")
    @@ ("N" :> "n") @@ ("O" :> "o") @@ ("P" :> "p") @@ ("Q" :> "q") @@
    ("R" :> "r") @@ ("S" :> "s") @@ ("T" :> "t") @@ ("U" :> "u") @@ ("V"
    :> "v") @@ ("W" :> "w") @@ ("X" :> "x") @@ ("Y" :> "y") @@ ("Z" :>
    "z")

(* x.lower(), character by character *)
Lower(s) == [k \in 1..Len(s) |-> IF s[k] \in DOMAIN LowerOf THEN LowerOf[s[k]] ELSE s[k]]

(* the month names of %B, which strptime compares without regard to case *)
MonthNames ==
    <<<<"j", "a", "n", "u", "a", "r", "y">>,
      <<"f", "e", "b", "r", "u", "a", "r", "y">>,
      <<"m", "a", "r", "c", "h">>,
      <<"a", "p", "r", "i", "l">>,
      <<"m", "a", "y">>,
      <<"j", "u", "n", "e">>,
      <<"j", "u", "l", "y">>,
      <<"a", "u", "g", "u", "s", "t">>,
      <<"s", "e", "p", "t", "e", "m", "b", "e", "r">>,
      <<"o", "c", "t", "o", "b", "e", "r">>,
      <<"n", "o", "v", "e", "m", "b", "e", "r">>,
      <<"d", "e", "c", "e", "m", "b", "e", "r">>>>

(* the number of the month named by word, 0 if it names none *)
MonthNumber(word) ==
    IF \E m \in 1..Len(MonthNames) : MonthNames[m] = Lower(word)
    THEN CHOOSE m \in 1..Len(MonthNames) : MonthNames[m] = Lower(word)
    ELSE 0

DigitValue ==
    ("0" :> 0) @@ ("1" :> 1) @@ ("2" :> 2) @@ ("3" :> 3) @@ ("4" :> 4)
        @@ ("5" :> 5) @@ ("6" :> 6) @@ ("7" :> 7) @@ ("8" :> 8) @@ ("9" :> 9)

(* int(x) of a string of digits *)
RECURSIVE Number(_)
Number(s) ==
    IF s = <<>> THEN 0
    ELSE 10 * Number(SubSeq(s, 1, Len(s) - 1)) + DigitValue[s[Len(s)]]

AllDigits(s) == \A k \in 1..Len(s) : s[k] \in Digits

(* the day of "%d,": one or two digits that make a number from 1 to 31, and
   the comma; 0 if the word is not of this form *)
DayNumber(word) ==
    LET d == SubSeq(word, 1, Len(word) - 1)
    IN IF /\ Len(word) \in {2, 3} /\ word[Len(word)] = ","
          /\ AllDigits(d) /\ Number(d) \in 1..31
       THEN Number(d) ELSE 0

(* the year of %Y: four digits; 0 if the word is not of this form *)
YearNumber(word) ==
    IF Len(word) = 4 /\ AllDigits(word) THEN Number(word) ELSE 0

(* the number of days of a month of a year, which datetime checks *)
DaysInMonth(year, month) ==
    IF month = 2
    THEN (IF year % 4 = 0 /\ (year % 100 # 0 \/ year % 400 = 0) THEN 29 ELSE 28)
    ELSE IF month \in {4, 6, 9, 11} THEN 30 ELSE 31

(* datetime.strptime(" ".join(words), "%B %d, %Y") for three words without
   whitespace: raised tells whether it ends with ValueError; date stands for
   the datetime, a number that orders as year, month, day *)
Strptime(words) ==
    LET month == MonthNumber(words[1])
        day == DayNumber(words[2])
        year == YearNumber(words[3])
    IN IF month # 0 /\ day # 0 /\ year # 0 /\ day <= DaysInMonth(year, month)
       THEN [raised |-> FALSE, date |-> year * 10000 + month * 100 + day]
       ELSE [raised |-> TRUE, date |-> 0]

GetDateAllWords(s) ==
    LET date_string_split == SplitWords(s)
    IN IF Len(date_string_split) # 3
       THEN [raised |-> TRUE, date |-> 0]
       ELSE Strptime(date_string_split)

(* get_date(date_string) *)
GetDate(s) ==
    LET date_string_split == SplitWords(s)
    IN IF Len(date_string_split) < 3
       THEN [raised |-> TRUE, date |-> 0]
       ELSE Strptime(SubSeq(date_string_split, 1, 3))

(* the "songs" mappings of the album records, each the sequence of its items
   in the order of the file: the key and the metadata of a song *)
SongItem(key, index, actual_name, file_id, instrumental) ==
    [key |-> key,
     metadata |-> [index |-> index, actual_name |-> actual_name,
                   file_id |-> file_id, instrumental |-> instrumental,
                   written_and_performed_by |-> {}]]

SongMappings ==
    {<<>>,
     <<SongItem("s1", 1, None, "f1", "")>>,
     <<SongItem("s1", 2, None, "f2", ""), SongItem("s2", 1, "s1", "f1", "")>>,
     <<SongItem("s1", 1, None, "f1", "true")>>}

RecordTypes == {"album", "song", "single"}

(* what a record of the file holds apart from the name of the collection;
   the songs of a record that is no album are not read *)
RecordBodies ==
    [type : {"album"}, release_date : ReleaseDates, songs : SongMappings]
        \cup [type : RecordTypes \ {"album"}, release_date : ReleaseDates,
              songs : {<<>>}]

(* the index files of n records; the k-th record of the file is given the
   name k *)
IndexFilesOf(n) ==
    {[k \in 1..n |->
         [type |-> f[k].type,
          metadata |-> [name |-> k, file_id |-> k,
                        release_date |-> f[k].release_date,
                        songs |-> f[k].songs]]] : f \in [1..n -> RecordBodies]}

IndexFiles == UNION {IndexFilesOf(n) : n \in 0..MaxRecords}

Unsorted(recs) == recs

(* sorted(recs, key=lambda x: get_date(x["metadata"]["release_date"])): the
   sort is stable, a record goes behind the records before it in the file
   whose date is not later *)
RECURSIVE SortedByDate(_)
SortedByDate(recs) ==
    IF recs = <<>> THEN <<>>
    ELSE LET front == SortedByDate(SubSeq(recs, 1, Len(recs) - 1))
             x == recs[Len(recs)]
             key == GetDate(x.metadata.release_date).date
             p == Cardinality({i \in 1..Len(front) :
                      GetDate(front[i].metadata.release_date).date <= key})
         IN SubSeq(front, 1, p) \o <<x>> \o SubSeq(front, p + 1, Len(front))

InFileOrder(items) == items

(* sorted(metadata.get("songs").items(), key=... .get("index")) *)
RECURSIVE SortedByIndex(_)
SortedByIndex(items) ==
    IF items = <<>> THEN <<>>
    ELSE LET front == SortedByIndex(SubSeq(items, 1, Len(items) - 1))
             x == items[Len(items)]
             p == Cardinality({i \in 1..Len(front) :
                      front[i].metadata.index <= x.metadata.index})
         IN SubSeq(front, 1, p) \o <<x>> \o SubSeq(front, p + 1, Len(front))

(* Song(song_name, song_metadata) *)
NewSong(name, metadata) ==
    [name |-> name,
     actual_name |-> metadata.actual_name,
     file_id |-> metadata.file_id,
     instrumental |-> metadata.instrumental,
     written_and_performed_by |-> metadata.written_and_performed_by]

(* Album(collection["type"], collection["metadata"]) *)
NewAlbum(type_, metadata) ==
    LET items == SortedByIndex(metadata.songs)
    IN [type_ |-> type_,
        name |-> metadata.name,
        file_id |-> metadata.file_id,
        release_date |-> metadata.release_date,
        songs |-> [k \in 1..Len(items) |-> NewSong(items[k].key, items[k].metadata)]]

CollectionBranchLenient(type) ==
    IF type = "album" THEN "album" ELSE "song"

CollectionBranchAlbumsOnly(type) ==
    IF type = "album" THEN "album" ELSE "raise"

(* the branch the first loop takes for a record of this type *)
CollectionBranch(type) ==
    IF type = "album" THEN "album"
    ELSE IF type = "song" THEN "song"
    ELSE "raise"

NoAlbumsIgnored(albs) == FALSE

(* not albums *)
NoAlbums(albs) == albs = <<>>

(* file_album_dict of an album, with its release date *)
FileAlbumDictOf(album) ==
    [name |-> album.name, file_id |-> album.file_id,
     release_date |-> GetDate(album.release_date).date]

InvalidDateError == "ValueError: Invalid date string"
MalformedRecordError == "ValueError: type is neither album nor song"
NoAlbumsError == "ValueError: No albums/song collections found in index file!"

InitLoad ==
    /\ pc = "sort"
    /\ records \in IndexFiles
    /\ collections = <<>> /\ rec_ix = 0 /\ albums = <<>> /\ song_ix = 0
    /\ DateIdle
    /\ album_ix = 0 /\ seen = <<>> /\ song_files_dict = <<>>
    /\ line = <<>> /\ annotations = <<>> /\ indices = <<>>
    /\ rendering_text = <<>>
    /\ SongIdle

(* sorted(...) takes the date of every record, which raises ValueError at a
   date get_date cannot read, and then orders the records *)
SortCollections ==
    /\ pc = "sort"
    /\ IF \E k \in 1..Len(records) : GetDate(records[k].metadata.release_date).raised
       THEN /\ pc' = "raised" /\ error' = InvalidDateError
            /\ UNCHANGED collections
       ELSE /\ collections' = SortedByDate(records)
            /\ pc' = "check"
            /\ UNCHANGED error
    /\ UNCHANGED <<records, rec_ix, albums, song_ix, dateVars, titleVars, indexVars, lineVars,
                   song_lines, splitVars, renderVars>>

(* one iteration of "for collection in sorted(...)" *)
CheckCollection ==
    /\ pc = "check"
    /\ rec_ix < Len(collections)
    /\ LET collection == collections[rec_ix + 1]
           branch == CollectionBranch(collection.type)
       IN IF branch = "raise"
          THEN /\ pc' = "raised" /\ error' = MalformedRecordError
               /\ UNCHANGED <<rec_ix, albums>>
          ELSE /\ rec_ix' = rec_ix + 1
               /\ albums' = IF branch = "album"
                            THEN Append(albums,
                                        NewAlbum(collection.type, collection.metadata))
                            ELSE albums
               /\ UNCHANGED <<pc, error>>
    /\ UNCHANGED <<records, collections, song_ix, dateVars, titleVars, indexVars, lineVars,
                   song_lines, splitVars, renderVars>>

(* "if not albums: raise ValueError", and song_files_dict = {} *)
CheckAlbums ==
    /\ pc = "check"
    /\ rec_ix = Len(collections)
    /\ IF NoAlbums(albums)
       THEN /\ pc' = "raised" /\ error' = NoAlbumsError
            /\ UNCHANGED album_ix
       ELSE /\ pc' = "build" /\ album_ix' = 1
            /\ UNCHANGED error
    /\ UNCHANGED <<seen, song_files_dict, loadVars, dateVars, titleVars, lineVars,
                   song_lines, splitVars, renderVars>>

(* one iteration of "for song in album.songs" *)
FoldSong ==
    /\ pc = "build"
    /\ album_ix <= Len(albums)
    /\ song_ix < Len(albums[album_ix].songs)
    /\ LET album == albums[album_ix]
           song == album.songs[song_ix + 1]
       IN /\ song_files_dict' = AddToIndex(song_files_dict, SongName(song),
                                           SongFileId(song), FileAlbumDictOf(album))
          /\ seen' = Append(seen, [album |-> album.name, song |-> song])
    /\ song_ix' = song_ix + 1
    /\ UNCHANGED <<pc, album_ix, records, collections, rec_ix, albums, dateVars, titleVars,
                   lineVars, songVars>>

(* the songs of the album are done: "for album in albums" takes the next *)
FoldNextAlbum ==
    /\ pc = "build"
    /\ album_ix <= Len(albums)
    /\ song_ix = Len(albums[album_ix].songs)
    /\ album_ix' = album_ix + 1
    /\ song_ix' = 0
    /\ UNCHANGED <<pc, seen, song_files_dict, records, collections, rec_ix, dateVars, titleVars,
                   albums, lineVars, songVars>>

(* return albums, song_files_dict *)
ReturnIndex ==
    /\ pc = "build"
    /\ album_ix > Len(albums)
    /\ pc' = "returned"
    /\ UNCHANGED <<indexVars, loadVars, dateVars, titleVars, lineVars, songVars>>

NextLoad ==
    \/ SortCollections \/ CheckCollection \/ CheckAlbums
    \/ FoldSong \/ FoldNextAlbum \/ ReturnIndex

SpecLoad == InitLoad /\ [][NextLoad]_vars

(* What the claims about the reading of the index file speak of *)

(* the file is one the format allows: get_date reads every release date *)
DatesReadable ==
    \A k \in 1..Len(records) : ~GetDate(records[k].metadata.release_date).raised

(* the release date of the k-th record of the file *)
DateOfRecord(k) == GetDate(records[k].metadata.release_date).date

(* record a is not behind record b in the order of the fold: it was released
   earlier, or on the same date and stands no later in the file *)
NotBehind(a, b) ==
    \/ DateOfRecord(a) < DateOfRecord(b)
    \/ DateOfRecord(a) = DateOfRecord(b) /\ a <= b

(* the k-th record is an album on which the song named key appears in the
   category file_id *)
AppearsOn(k, key, file_id) ==
    /\ records[k].type = "album"
    /\ \E i \in 1..Len(records[k].metadata.songs) :
           LET item == records[k].metadata.songs[i]
               song == NewSong(item.key, item.metadata)
           IN SongName(song) = key /\ SongFileId(song) = file_id

FoldInDateOrder ==
    \A i, j \in 1..Len(seen) : i < j => NotBehind(seen[i].album, seen[j].album)

(* the first album of group g of the entry of key is the earliest released
   album on which that category of the song appears *)
FirstAlbumIsEarliest(key, g) ==
    \A k \in 1..Len(records) :
        AppearsOn(k, key, song_files_dict[key][g].file_id)
            => song_files_dict[key][g].albums[1].release_date <= DateOfRecord(k)

(* C11: the fold takes the albums in ascending order of release date, albums
   of the same date in the order of the file, whatever the order of the
   records in the file; and in the index returned the first album of every
   group is the earliest released album on which that category of the song
   appears. *)
C11_EveryGroupStartsWithEarliest ==
    /\ FoldInDateOrder
    /\ pc = "returned" =>
           \A key \in DOMAIN song_files_dict :
               \A g \in 1..Len(song_files_dict[key]) : FirstAlbumIsEarliest(key, g)

(* C11 as amended: the fold takes the albums in ascending order of release
   date, albums of the same date in the order of the file; and in the index
   returned the first album of every group whose category is not one of
   file_id_types_to_skip is the earliest released album on which that
   category of the song appears. *)
C11_FoldInReleaseDateOrder ==
    /\ FoldInDateOrder
    /\ pc = "returned" =>
           \A key \in DOMAIN song_files_dict :
               \A g \in 1..Len(song_files_dict[key]) :
                   song_files_dict[key][g].file_id \notin file_id_types_to_skip
                       => FirstAlbumIsEarliest(key, g)

C11_Witness ==
    /\ pc = "returned"
    /\ Len(records) = 2
    /\ DateOfRecord(2) < DateOfRecord(1)
    /\ \E key \in DOMAIN song_files_dict :
           /\ song_files_dict[key][1].file_id \notin file_id_types_to_skip
           /\ Len(song_files_dict[key][1].albums) = 2
           /\ song_files_dict[key][1].albums[1].name = 2
           /\ song_files_dict[key][1].albums[2].name = 1

(* C13: for a file with no record of type "album" (no record at all, or
   records of type "song" only) read_songs_index ends with the ValueError
   "No albums/song collections found in index file!", and the fold over the
   albums is never begun. *)
C13_NoAlbumRecordRaises ==
    (DatesReadable /\ \A k \in 1..Len(records) : records[k].type = "song") =>
        /\ pc \in {"sort", "check", "raised"}
        /\ pc = "raised" => error = NoAlbumsError
        /\ album_ix = 0 /\ seen = <<>> /\ song_files_dict = <<>>

C13_Witness ==
    /\ pc = "raised"
    /\ error = NoAlbumsError
    /\ Len(records) = 2
    /\ \A k \in 1..Len(records) : records[k].type = "song"

(* the albums among recs *)
AlbumRecords(recs) == SelectSeq(recs, LAMBDA c : c.type = "album")

(* C14: for a file with a record whose type is neither "album" nor "song"
   read_songs_index ends with the ValueError of the type check, whether or
   not album records stand before or after that record; a record of type
   "song" does not raise that error and adds no album. *)
C14_MalformedRecordRaises ==
    DatesReadable =>
        /\ (\E k \in 1..Len(records) : records[k].type \notin {"album", "song"})
               => /\ pc \in {"sort", "check", "raised"}
                  /\ pc = "raised" => error = MalformedRecordError
        /\ (pc = "raised" /\ error = MalformedRecordError)
               => collections[rec_ix + 1].type \notin {"album", "song"}
        /\ pc \in {"check", "build", "returned"}
               => Len(albums) = Len(AlbumRecords(SubSeq(collections, 1, rec_ix)))

C14_Witness ==
    /\ pc = "raised"
    /\ error = MalformedRecordError
    /\ Len(records) = 2
    /\ records[1].type = "album"
    /\ records[2].type = "single"
    /\ rec_ix = 1
    /\ albums # <<>>

(* C15: when read_songs_index has failed the index is empty, and the index
   gets its first entry only after every record has passed the type check
   and the list of albums was found not empty. *)
C15_NoIndexOnFailure ==
    /\ pc = "raised" => song_files_dict = <<>> /\ seen = <<>>
    /\ (song_files_dict # <<>> \/ pc \in {"build", "returned"})
           => /\ DatesReadable
              /\ rec_ix = Len(records)
              /\ \A k \in 1..Len(records) : records[k].type \in {"album", "song"}
              /\ albums # <<>>

C15_Witness ==
    /\ pc = "raised"
    /\ error = MalformedRecordError
    /\ Len(albums) = 1
    /\ Len(albums[1].songs) = 2
    /\ song_files_dict = <<>>

(* the index attribute of the song with this key in the mapping of the k-th
   record of the file *)
IndexInRecord(k, key) ==
    LET items == records[k].metadata.songs
        i == CHOOSE i \in 1..Len(items) : items[i].key = key
    IN items[i].metadata.index

(* the songs of the album the fold has visited, in the order of the visits *)
VisitedOf(album) ==
    LET visits == SelectSeq(seen, LAMBDA x : x.album = album.name)
    IN [k \in 1..Len(visits) |-> visits[k].song]

(* C23: the songs of an album are the songs of its mapping in ascending
   order of their index, whatever the order of the keys of the mapping, and
   the fold visits the songs of an album in the order of that list. *)
C23_SongsInIndexOrder ==
    \A a \in 1..Len(albums) :
        LET album == albums[a]
            k == album.name
            items == records[k].metadata.songs
        IN /\ Len(album.songs) = Len(items)
           /\ {album.songs[i].name : i \in 1..Len(album.songs)}
                  = {items[i].key : i \in 1..Len(items)}
           /\ \A i, j \in 1..Len(album.songs) :
                  i < j => IndexInRecord(k, album.songs[i].name)
                               < IndexInRecord(k, album.songs[j].name)
           /\ IsPrefix(VisitedOf(album), album.songs)
           /\ pc = "returned" => VisitedOf(album) = album.songs

C23_Witness ==
    /\ pc = "returned"
    /\ \E a \in 1..Len(albums) :
           LET items == records[albums[a].name].metadata.songs
           IN /\ Len(items) = 2
              /\ items[1].metadata.index > items[2].metadata.index
              /\ VisitedOf(albums[a]) = albums[a].songs
              /\ albums[a].songs[1].name = items[2].key
              /\ albums[a].songs[2].name = items[1].key

----------------------------------------------------------------------------
(* One call of get_date *)

DateWords ==
    {<<"M", "a", "y">>,
     <<"j", "a", "n", "u", "a", "r", "y">>,
     <<"F", "e", "b", "r", "u", "a", "r", "y">>,
     <<"2", ",">>,
     <<"2", "9", ",">>,
     <<"1", "9", "6", "3">>,
     <<"1", "9", "9", "2">>,
     <<"(", "m", "o", "n", "o", ")">>}

(* the sequences of at most n words *)
RECURSIVE WordListsOf(_)
WordListsOf(n) ==
    IF n = 0 THEN {<<>>}
    ELSE WordListsOf(n - 1)
             \cup {Append(ws, w) : ws \in WordListsOf(n - 1), w \in DateWords}

(* the words with sep between them *)
RECURSIVE Separated(_, _)
Separated(ws, sep) ==
    IF ws = <<>> THEN <<>>
    ELSE IF Len(ws) = 1 THEN ws[1]
    ELSE ws[1] \o sep \o Separated(Tail(ws), sep)

(* the date strings get_date is tried with: up to MaxWords words, one or two
   blanks between them *)
DateStrings ==
    {Separated(ws, sep) : ws \in WordListsOf(MaxWords),
                          sep \in {<<" ">>, <<" ", " ">>}}

InitDate ==
    /\ pc = "get_date"
    /\ date_string \in DateStrings
    /\ date_value = 0
    /\ titles = <<>> /\ filter_char = NoneString /\ sorted_titles = <<>>
    /\ album_ix = 0 /\ seen = <<>> /\ song_files_dict = <<>>
    /\ line = <<>> /\ annotations = <<>> /\ indices = <<>>
    /\ rendering_text = <<>>
    /\ SongIdle
    /\ LoadIdle

CallGetDate ==
    /\ pc = "get_date"
    /\ LET r == GetDate(date_string)
       IN /\ date_value' = r.date
          /\ pc' = IF r.raised THEN "raised" ELSE "returned"
    /\ UNCHANGED <<date_string, titleVars, indexVars, lineVars, songVars, loadVars>>

NextDate == CallGetDate

SpecDate == InitDate /\ [][NextDate]_vars

(* the positions of s where a token begins and where one ends *)
TokenStarts(s) ==
    {p \in 1..Len(s) : s[p] \notin Whitespace /\ (p = 1 \/ s[p - 1] \in Whitespace)}

TokenEnds(s) ==
    {p \in 1..Len(s) : s[p] \notin Whitespace /\ (p = Len(s) \/ s[p + 1] \in Whitespace)}

(* the n-th smallest member of a set of numbers *)
NthOf(S, n) == CHOOSE p \in S : Cardinality({q \in S : q <= p}) = n

(* the n-th whitespace-separated token of s *)
Token(s, n) == SubSeq(s, NthOf(TokenStarts(s), n), NthOf(TokenEnds(s), n))

(* the date written by three tokens, if they write one: month name, day with
   comma, year *)
WrittenDate(t1, t2, t3) == Strptime(<<t1, t2, t3>>)

(* C25: get_date reads the first three whitespace-separated tokens of the
   string and nothing else: a string of fewer than three tokens raises
   ValueError, and a string of three or more gives what its first three
   tokens give by themselves, whatever text follows them and whatever
   whitespace separates them. *)
C25_FirstThreeTokensOnly ==
    pc # "get_date" =>
        LET n == Cardinality(TokenStarts(date_string))
        IN /\ n < 3 => pc = "raised"
           /\ n >= 3 =>
                  LET d == WrittenDate(Token(date_string, 1), Token(date_string, 2),
                                       Token(date_string, 3))
                  IN /\ pc = (IF d.raised THEN "raised" ELSE "returned")
                     /\ date_value = d.date

C25_Witness ==
    /\ pc = "returned"
    /\ Cardinality(TokenStarts(date_string)) = 4
    /\ Len(date_string) > Len(Token(date_string, 1)) + Len(Token(date_string, 2))
                             + Len(Token(date_string, 3)) + Len(Token(date_string, 4)) + 3
    /\ date_value = 19920229

----------------------------------------------------------------------------
(* sort_titles and clean_title *)

(* x.strip("()") *)
RECURSIVE StripParens(_)
StripParens(s) ==
    IF s # <<>> /\ s[1] \in {"(", ")"} THEN StripParens(Tail(s))
    ELSE IF s # <<>> /\ s[Len(s)] \in {"(", ")"}
    THEN StripParens(SubSeq(s, 1, Len(s) - 1))
    ELSE s

(* strip_parens_and_lower_case *)
StripParensAndLowerCase(s) == Lower(StripParens(s))

(* remove_determiner: A_THE_RE.sub("", x), with A_THE_RE "^(the|a) " *)
RemoveDeterminer(s) ==
    IF Len(s) >= 4 /\ SubSeq(s, 1, 4) = <<"t", "h", "e", " ">>
    THEN SubSeq(s, 5, Len(s))
    ELSE IF Len(s) >= 2 /\ SubSeq(s, 1, 2) = <<"a", " ">>
    THEN SubSeq(s, 3, Len(s))
    ELSE s

(* clean_title *)
CleanTitle(s) == RemoveDeterminer(StripParensAndLowerCase(s))

(* the characters of the titles in the order of their code points *)
CodePointOrder ==
    <<" ", "(", ")", "A", "B", "C", "D", "E", "F", "G", "H", "I", "J",
      "K", "L", "M", "N", "O", "P", "Q", "R", "S", "T", "U", "V", "W",
      "X", "Y", "Z", "a", "b", "c", "d", "e", "f", "g", "h", "i", "j",
      "k", "l", "m", "n", "o", "p", "q", "r", "s", "t", "u", "v", "w",
      "x", "y", "z">>

CodePoint(ch) == CHOOSE k \in 1..Len(CodePointOrder) : CodePointOrder[k] = ch

(* s <= t for two strings *)
RECURSIVE StringLessEq(_, _)
StringLessEq(s, t) ==
    IF s = <<>> THEN TRUE
    ELSE IF t = <<>> THEN FALSE
    ELSE IF s[1] # t[1] THEN CodePoint(s[1]) < CodePoint(t[1])
    ELSE StringLessEq(Tail(s), Tail(t))

(* sorted(titles, key=clean_title) *)
RECURSIVE SortedByCleanTitle(_)
SortedByCleanTitle(ts) ==
    IF ts = <<>> THEN <<>>
    ELSE LET front == SortedByCleanTitle(SubSeq(ts, 1, Len(ts) - 1))
             x == ts[Len(ts)]
             p == Cardinality({i \in 1..Len(front) :
                      StringLessEq(CleanTitle(front[i]), CleanTitle(x))})
         IN SubSeq(front, 1, p) \o <<x>> \o SubSeq(front, p + 1, Len(front))

(* the titles filter(filter_func, ts) yields from ts[k] on.  filter_func is
   the lambda in both cases: it gives None when filter_char is not given,
   and compares filter_char.lower() with get_title_index_letter(x) when it
   is; cytoolz.first of an empty cleaned title raises StopIteration, which
   ends the iteration of the filter *)
RECURSIVE FilterFrom(_, _, _)
FilterFrom(ts, k, fc) ==
    IF k > Len(ts) THEN <<>>
    ELSE IF fc \in {NoneString, <<>>} THEN FilterFrom(ts, k + 1, fc)
    ELSE IF CleanTitle(ts[k]) = <<>> THEN <<>>
    ELSE (IF Lower(fc) = <<CleanTitle(ts[k])[1]>> THEN <<ts[k]>> ELSE <<>>)
             \o FilterFrom(ts, k + 1, fc)

(* sort_titles(titles, filter_char), its result read to the end: raised
   tells whether it ends with ValueError *)
SortTitles(ts, fc) ==
    IF ts = <<>>
    THEN [raised |-> TRUE, titles |-> <<>>]
    ELSE [raised |-> FALSE, titles |-> FilterFrom(SortedByCleanTitle(ts), 1, fc)]

TitlePool ==
    {<<"T", "h", "e", " ", "b">>,
     <<"a", " ", "c">>,
     <<"(", "B", ")">>,
     <<"b">>,
     <<"t", "h", "e", " ">>,
     <<"A">>,
     <<"(", "a", "b">>}

(* the lists of at most n titles *)
RECURSIVE TitleListsOf(_)
TitleListsOf(n) ==
    IF n = 0 THEN {<<>>}
    ELSE TitleListsOf(n - 1)
             \cup {Append(ts, t) : ts \in TitleListsOf(n - 1), t \in TitlePool}

FilterChars == {NoneString, <<"b">>, <<"B">>, <<"a">>}

InitTitles ==
    /\ pc = "sort_titles"
    /\ titles \in TitleListsOf(MaxTitles)
    /\ filter_char \in FilterChars
    /\ sorted_titles = <<>>
    /\ date_string = <<>> /\ date_value = 0
    /\ album_ix = 0 /\ seen = <<>> /\ song_files_dict = <<>>
    /\ line = <<>> /\ annotations = <<>> /\ indices = <<>>
    /\ rendering_text = <<>>
    /\ SongIdle
    /\ LoadIdle

CallSortTitles ==
    /\ pc = "sort_titles"
    /\ LET r == SortTitles(titles, filter_char)
       IN /\ sorted_titles' = r.titles
          /\ pc' = IF r.raised THEN "raised" ELSE "returned"
    /\ UNCHANGED <<titles, filter_char, indexVars, lineVars, songVars, loadVars,
                   date_string, date_value>>

NextTitles == CallSortTitles

SpecTitles == InitTitles /\ [][NextTitles]_vars

(* how often x occurs in the list *)
Occurrences(lst, x) == Cardinality({k \in 1..Len(lst) : lst[k] = x})

(* the title is kept by the filter on character fc *)
BeginsWith(t, fc) == CleanTitle(t) # <<>> /\ <<CleanTitle(t)[1]>> = Lower(fc)

(* C24: sort_titles yields the titles in the order of their cleaned forms;
   with a filter_char, those and only those whose cleaned form begins with
   it, compared without regard to case; without one, all of them; and for no
   titles it raises ValueError. *)
C24_SortedAndFiltered ==
    pc # "sort_titles" =>
        /\ pc = "raised" <=> titles = <<>>
        /\ \A i, j \in 1..Len(sorted_titles) :
               i < j => StringLessEq(CleanTitle(sorted_titles[i]),
                                     CleanTitle(sorted_titles[j]))
        /\ \A t \in TitlePool :
               Occurrences(sorted_titles, t)
                   = (IF filter_char = NoneString \/ BeginsWith(t, filter_char)
                      THEN Occurrences(titles, t) ELSE 0)

----------------------------------------------------------------------------
(* Strings: str.strip, str.split("**"), ANNOTATION_MARK_RE *)

Range(f) == {f[k] : k \in DOMAIN f}

RECURSIVE LStrip(_)
LStrip(s) ==
    IF s # <<>> /\ s[1] \in Whitespace THEN LStrip(Tail(s)) ELSE s

RECURSIVE RStrip(_)
RStrip(s) ==
    IF s # <<>> /\ s[Len(s)] \in Whitespace
    THEN RStrip(SubSeq(s, 1, Len(s) - 1))
    ELSE s

(* x.strip() *)
Strip(s) == RStrip(LStrip(s))

(* the parts of s[p..] between the occurrences of "**", found from the left
   and not overlapping; part is the part being read *)
RECURSIVE SplitFrom(_, _, _)
SplitFrom(s, p, part) ==
    IF p > Len(s) THEN <<part>>
    ELSE IF p < Len(s) /\ s[p] = "*" /\ s[p + 1] = "*"
    THEN <<part>> \o SplitFrom(s, p + 2, <<>>)
    ELSE SplitFrom(s, p + 1, Append(part, s[p]))

(* x.split("**") *)
Split(s) == SplitFrom(s, 1, <<>>)

(* the first position from p on that holds no digit *)
RECURSIVE DigitsEnd(_, _)
DigitsEnd(s, p) ==
    IF p <= Len(s) /\ s[p] \in Digits THEN DigitsEnd(s, p + 1) ELSE p

(* ANNOTATION_MARK_RE matches at position p of s: "**", one or more digits,
   "**"; the match then ends at DigitsEnd(s, p + 2) + 1 *)
MatchAt(s, p) ==
    LET q == DigitsEnd(s, p + 2)
    IN /\ p + 1 <= Len(s) /\ s[p] = "*" /\ s[p + 1] = "*"
       /\ q > p + 2
       /\ q + 1 <= Len(s) /\ s[q] = "*" /\ s[q + 1] = "*"

RECURSIVE FindAllFrom(_, _)
FindAllFrom(s, p) ==
    IF p > Len(s) THEN <<>>
    ELSE IF MatchAt(s, p)
    THEN <<SubSeq(s, p + 2, DigitsEnd(s, p + 2) - 1)>>
             \o FindAllFrom(s, DigitsEnd(s, p + 2) + 2)
    ELSE FindAllFrom(s, p + 1)

(* ANNOTATION_MARK_RE.findall(x): the numbers of the markers of x *)
FindAll(s) == FindAllFrom(s, 1)

RECURSIVE RemoveFrom(_, _)
RemoveFrom(s, p) ==
    IF p > Len(s) THEN <<>>
    ELSE IF MatchAt(s, p) THEN RemoveFrom(s, DigitsEnd(s, p + 2) + 2)
    ELSE <<s[p]>> \o RemoveFrom(s, p + 1)

(* remove_inline_annotation_marks(x) *)
RemoveInlineAnnotationMarks(s) == RemoveFrom(s, 1)

----------------------------------------------------------------------------
(* find_annotation_indices *)

(* the for loop over the parts, from part k on; annotation_index counts from
   0 as in the code, and annotations[annotation_index] raises IndexError,
   which is passed over, once the index is len(annotations) *)
RECURSIVE Walk(_, _, _, _, _, _)
Walk(parts, k, annots, i, annotation_index, inds) ==
    IF k > Len(parts)
    THEN [indices |-> inds, annotation_index |-> annotation_index]
    ELSE IF annotation_index < Len(annots) /\ parts[k] = annots[annotation_index + 1]
    THEN Walk(parts, k + 1, annots, i, annotation_index + 1, Append(inds, i))
    ELSE Walk(parts, k + 1, annots,
              IF parts[k] \notin Range(annots) THEN i + Len(parts[k]) ELSE i,
              annotation_index, inds)

FindAnnotationIndicesNoCheck(ln, annots) ==
    LET w == Walk(Split(Strip(ln)), 1, annots, 0, 0, <<>>)
    IN [raised |-> FALSE, indices |-> w.indices]

(* a variant whose offsets are positions in the line as written, the "**"
   delimiters of the markers counted in *)
FindAnnotationIndicesRawOffsets(ln, annots) ==
    LET w == Walk(Split(Strip(ln)), 1, annots, 0, 0, <<>>)
    IN [raised |-> Len(annots) # w.annotation_index,
        indices |-> [k \in 1..Len(w.indices) |-> w.indices[k] + 4 * k - 2]]

(* find_annotation_indices(line, annotations): raised tells whether it ends
   with ValueError, indices is its list of offsets *)
FindAnnotationIndices(ln, annots) ==
    LET w == Walk(Split(Strip(ln)), 1, annots, 0, 0, <<>>)
    IN [raised |-> Len(annots) # w.annotation_index, indices |-> w.indices]

----------------------------------------------------------------------------
(* One call of find_annotation_indices *)

Tokens ==
    {<<"a">>, <<" ">>, <<"1">>, <<"2">>, <<"*">>, <<"*", "*">>,
     <<"*", "*", "1", "*", "*">>, <<"*", "*", "2", "*", "*">>}

(* the lines made of at most n tokens *)
RECURSIVE LinesOf(_)
LinesOf(n) ==
    IF n = 0 THEN {<<>>}
    ELSE LinesOf(n - 1) \cup {l \o t : l \in LinesOf(n - 1), t \in Tokens}

MarkerLists == {<< <<"1">> >>, << <<"2">> >>, << <<"1">>, <<"2">> >>}

(* the marker lists a line is tried with: the one htmlify_song passes, the
   numbers ANNOTATION_MARK_RE finds in the line, and some that need not fit *)
AnnotationArgs(ln) == {FindAll(ln)} \cup MarkerLists

InitLine ==
    /\ pc = "call"
    /\ line \in LinesOf(MaxTokens)
    /\ annotations \in AnnotationArgs(line)
    /\ indices = <<>>
    /\ rendering_text = <<>>
    /\ album_ix = 0 /\ seen = <<>> /\ song_files_dict = <<>>
    /\ SongIdle
    /\ LoadIdle
    /\ DateIdle

CallFindAnnotationIndices ==
    /\ pc = "call"
    /\ LET r == FindAnnotationIndices(line, annotations)
       IN /\ indices' = r.indices
          /\ pc' = IF r.raised THEN "raised" ELSE "returned"
    /\ UNCHANGED <<line, annotations, rendering_text, indexVars, songVars, loadVars, dateVars, titleVars>>

(* one call of remove_inline_annotation_marks with the line *)
CallRemoveInlineAnnotationMarks ==
    /\ pc = "call"
    /\ rendering_text' = RemoveInlineAnnotationMarks(line)
    /\ pc' = "stripped"
    /\ UNCHANGED <<line, annotations, indices, indexVars, songVars, loadVars, dateVars, titleVars>>

NextLine == CallFindAnnotationIndices \/ CallRemoveInlineAnnotationMarks

SpecLine == InitLine /\ [][NextLine]_vars

(* the position of the first inline marker of t, and the position of its
   last character *)
MarkerStart(t) ==
    CHOOSE p \in 1..Len(t) : MatchAt(t, p) /\ \A q \in 1..(p - 1) : ~MatchAt(t, q)

MarkerEnd(t) == DigitsEnd(t, MarkerStart(t) + 2) + 1

InsertAt(s, off, m) == SubSeq(s, 1, off) \o m \o SubSeq(s, off + 1, Len(s))

Markups == {<<"^">>, <<"^", "^">>, <<"^", "^", "^">>}

(* C4: for a line with exactly one inline marker, called with the number of
   that marker, find_annotation_indices returns the one offset that is the
   number of characters of the trimmed line before the marker, and markup
   inserted there into the stripped line gives prefix, markup, suffix. *)
C4_OffsetIsPrefixLength ==
    (/\ pc \in {"returned", "raised"}
     /\ Len(FindAll(Strip(line))) = 1
     /\ annotations = FindAll(Strip(line)))
      => LET t == Strip(line)
             prefix == SubSeq(t, 1, MarkerStart(t) - 1)
             suffix == SubSeq(t, MarkerEnd(t) + 1, Len(t))
         IN /\ pc = "returned"
            /\ indices = <<Len(prefix)>>
            /\ \A m \in Markups :
                   InsertAt(RemoveInlineAnnotationMarks(t), indices[1], m)
                       = prefix \o m \o suffix

(* C8: find_annotation_indices returns one offset per marker number it was
   given, or raises ValueError; it raises exactly when the number of markers
   it found in their places is not the number it was given. *)
C8_OneOffsetPerMarkerOrError ==
    pc \in {"returned", "raised"} =>
        /\ pc = "returned" => Len(indices) = Len(annotations)
        /\ pc = "raised" <=> Len(indices) # Len(annotations)

C8_Witness ==
    /\ pc = "raised"
    /\ Len(annotations) = 2
    /\ Len(indices) = 1

(* the positions of t where ANNOTATION_MARK_RE finds its matches, from p on *)
RECURSIVE MatchStartsFrom(_, _)
MatchStartsFrom(t, p) ==
    IF p > Len(t) THEN {}
    ELSE IF MatchAt(t, p)
    THEN {p} \cup MatchStartsFrom(t, DigitsEnd(t, p + 2) + 2)
    ELSE MatchStartsFrom(t, p + 1)

(* the position of t where part k of t.split("**") begins *)
RECURSIVE PartStart(_, _)
PartStart(parts, k) ==
    IF k = 1 THEN 1 ELSE PartStart(parts, k - 1) + Len(parts[k - 1]) + 2

(* part k is the number of an inline marker of t: it stands between the two
   "**" of a match of ANNOTATION_MARK_RE *)
IsMarkerNumberPart(t, parts, k) ==
    (PartStart(parts, k) - 2) \in MatchStartsFrom(t, 1)

(* the walk as C18 describes it: a part is recorded only if it is the next
   expected number and is the number of an inline marker; every other part
   adds its length *)
RECURSIVE PositionedWalk(_, _, _, _, _, _, _)
PositionedWalk(t, parts, k, annots, i, annotation_index, inds) ==
    IF k > Len(parts) THEN inds
    ELSE IF /\ annotation_index < Len(annots)
            /\ parts[k] = annots[annotation_index + 1]
            /\ IsMarkerNumberPart(t, parts, k)
    THEN PositionedWalk(t, parts, k + 1, annots, i, annotation_index + 1,
                        Append(inds, i))
    ELSE PositionedWalk(t, parts, k + 1, annots, i + Len(parts[k]),
                        annotation_index, inds)

(* C18: the offsets find_annotation_indices records are those of the walk in
   which a part is recorded as a marker only when it equals the next expected
   marker number and stands between the two "**" of an inline marker, and
   every other part, text equal to a marker number included, adds its full
   length to the running offset. *)
C18_MarkerOnlyWhenPositioned ==
    pc \in {"returned", "raised"} =>
        indices = PositionedWalk(Strip(line), Split(Strip(line)), 1,
                                 annotations, 0, 0, <<>>)

(* C19: the result of remove_inline_annotation_marks holds no inline marker,
   and stripping it again changes nothing. *)
C19_StrippedHasNoMarker ==
    pc = "stripped" =>
        /\ FindAll(rendering_text) = <<>>
        /\ RemoveInlineAnnotationMarks(rendering_text) = rendering_text

(* C29: when find_annotation_indices is called with the marker numbers that
   ANNOTATION_MARK_RE finds in the line and returns, its offsets do not
   decrease and each is a position of the rendering text, the trimmed line
   with its inline markers removed: from 0 to the length of that text. *)
C29_OffsetsAreInsertionPositions ==
    (pc = "returned" /\ annotations = FindAll(line)) =>
        /\ \A i, j \in 1..Len(indices) : i < j => indices[i] <= indices[j]
        /\ \A i \in 1..Len(indices) :
               /\ 0 <= indices[i]
               /\ indices[i] <= Len(RemoveInlineAnnotationMarks(Strip(line)))

C29_Witness ==
    /\ pc = "returned"
    /\ annotations = FindAll(line)
    /\ Len(indices) = 2
    /\ indices[1] < indices[2]
    /\ indices[2] = Len(RemoveInlineAnnotationMarks(Strip(line)))
    /\ Strip(line) # line

----------------------------------------------------------------------------
(* htmlify_song: the paragraph split, the rendering of the lines, the
   footnote section *)

LinePool ==
    {<<>>,
     <<"a">>,
     <<"b", "*", "*", "1", "*", "*">>,
     <<"c", "*", "*", "3", "*", "*">>,
     <<"a", "b", "c", "d", "*", "*", "1", "*", "*", "*", "*", "2", "*", "*">>,
     <<"a", "b", "*", "*", "1", "*", "*", "*", "*", "2", "*", "*", "c">>,
     <<"*", "*", "1", "*", "*", " ", "x">>,
     <<"*", "*", "2", "*", "*", " ", "y">>,
     <<"*", "*", "z">>,
     <<"*", "*", "z", " ", "w">>,
     <<"a", "*", "*", "*", "1", "*", "*">>}

(* the sequences of at most n lines *)
RECURSIVE TextsOf(_)
TextsOf(n) ==
    IF n = 0 THEN {<<>>}
    ELSE TextsOf(n - 1) \cup {Append(ls, l) : ls \in TextsOf(n - 1), l \in LinePool}

(* raw_song_lyrics_file.read().strip().splitlines(): the text is stripped, so
   its first line starts and its last line ends with a character that is not
   whitespace *)
StrippedText(ls) ==
    ls # <<>> =>
        /\ ls[1] # <<>> /\ ls[1][1] \notin Whitespace
        /\ ls[Len(ls)] # <<>> /\ ls[Len(ls)][Len(ls[Len(ls)])] \notin Whitespace

StartsWithMarker(ln) == MatchAt(ln, 1)

(* line.startswith("**") *)
StartsWithStars(ln) == Len(ln) >= 2 /\ ln[1] = "*" /\ ln[2] = "*"

(* the position of the first space of s, 0 if it has none *)
FirstSpace(s) ==
    IF \E p \in 1..Len(s) : s[p] = " "
    THEN CHOOSE p \in 1..Len(s) : s[p] = " " /\ \A q \in 1..(p - 1) : s[q] # " "
    ELSE 0

(* str(a) of the anchor of marker number num: a.string is num, wrapped in sup *)
AnchorMarkup(num) ==
    <<"<", "a", " ", "h", "r", "e", "f", "=", "\"", "#">>
        \o num \o <<"\"", ">", "<", "s", "u", "p", ">">>
        \o num \o <<"<", "/", "s", "u", "p", ">", "<", "/", "a", ">">>

(* len(a.string): the string of the anchor is the marker number *)
AnchorStringLen(num) == Len(num)

(* x[:n] of a string *)
Upto(s, n) == SubSeq(s, 1, IF n < Len(s) THEN n ELSE Len(s))

(* x[n:] of a string *)
From(s, n) == SubSeq(s, n + 1, Len(s))

(* the loop that inserts the anchors of one line, from anchor i on: div is
   div.string, inds is annotation_inds, used lists the values ind has taken *)
RECURSIVE InsertAnchors(_, _, _, _, _)
InsertAnchors(div, nums, inds, i, used) ==
    IF i > Len(nums)
    THEN [div |-> div, annotation_inds |-> inds, inds_used |-> used]
    ELSE LET ind == inds[i]
         IN IF ind = Len(div)
            THEN InsertAnchors(div \o AnchorMarkup(nums[i]), nums, inds, i + 1,
                               Append(used, ind))
            ELSE InsertAnchors(Upto(div, ind) \o AnchorMarkup(nums[i]) \o From(div, ind),
                               nums,
                               [j \in 1..Len(inds) |->
                                   IF j > i THEN inds[j] + AnchorStringLen(nums[i])
                                   ELSE inds[j]],
                               i + 1, Append(used, ind))

InitSong ==
    /\ pc = "split"
    /\ song_lines \in {ls \in TextsOf(MaxLines) : StrippedText(ls)}
    /\ line_ind = 0
    /\ paragraphs = <<>> /\ current_paragraph = <<>> /\ footnotes = <<>>
    /\ par_ix = 1 /\ elem_ix = 1
    /\ line_elem = <<>> /\ annotation_inds = <<>> /\ inds_used = <<>>
    /\ paragraph_elem = <<>> /\ columns_div = <<>> /\ annotation_section = <<>>
    /\ error = ""
    /\ album_ix = 0 /\ seen = <<>> /\ song_files_dict = <<>>
    /\ line = <<>> /\ annotations = <<>> /\ indices = <<>>
    /\ rendering_text = <<>>
    /\ LoadIdle
    /\ DateIdle

(* one iteration of "for line_ind, line in enumerate(song_lines)" *)
SplitLine ==
    /\ pc = "split"
    /\ line_ind < Len(song_lines)
    /\ LET ln == song_lines[line_ind + 1]
       IN IF Strip(ln) # <<>>
          THEN IF StartsWithStars(ln)
               THEN IF FirstSpace(Strip(ln)) = 0
                    THEN \* line.strip().split(' ', 1)[1] raises IndexError
                         /\ pc' = "raised" /\ error' = "IndexError"
                         /\ UNCHANGED <<line_ind, paragraphs, current_paragraph, footnotes>>
                    ELSE /\ footnotes' = Append(footnotes, From(Strip(ln), FirstSpace(Strip(ln))))
                         /\ line_ind' = line_ind + 1
                         /\ UNCHANGED <<pc, error, paragraphs, current_paragraph>>
               ELSE /\ line_ind' = line_ind + 1
                    /\ IF Len(song_lines) = line_ind + 1
                       THEN /\ paragraphs' = Append(paragraphs, Append(current_paragraph, Strip(ln)))
                            /\ current_paragraph' = <<>>
                       ELSE /\ current_paragraph' = Append(current_paragraph, Strip(ln))
                            /\ UNCHANGED paragraphs
                    /\ UNCHANGED <<pc, error, footnotes>>
          ELSE /\ paragraphs' = Append(paragraphs, current_paragraph)
               /\ current_paragraph' = <<>>
               /\ line_ind' = line_ind + 1
               /\ UNCHANGED <<pc, error, footnotes>>
    /\ UNCHANGED <<song_lines, renderVars, indexVars, lineVars, loadVars, dateVars, titleVars>>

(* the first loop is over; the loop over the paragraphs begins *)
EndSplit ==
    /\ pc = "split"
    /\ line_ind = Len(song_lines)
    /\ pc' = "render"
    /\ UNCHANGED <<song_lines, splitVars, renderVars, error, indexVars, lineVars, loadVars, dateVars, titleVars>>

(* one iteration of "for line_elem in paragraph" *)
RenderLine ==
    /\ pc = "render"
    /\ par_ix <= Len(paragraphs)
    /\ elem_ix <= Len(paragraphs[par_ix])
    /\ LET le == paragraphs[par_ix][elem_ix]
           annotation_nums == FindAll(le)
           found == FindAnnotationIndices(le, annotation_nums)
           done == InsertAnchors(RemoveInlineAnnotationMarks(le), annotation_nums,
                                 found.indices, 1, <<>>)
       IN /\ line_elem' = le
          /\ IF annotation_nums # <<>>
             THEN IF found.raised
                  THEN /\ pc' = "raised" /\ error' = "ValueError"
                       /\ annotation_inds' = <<>> /\ inds_used' = <<>>
                       /\ UNCHANGED <<elem_ix, paragraph_elem>>
                  ELSE /\ annotation_inds' = done.annotation_inds
                       /\ inds_used' = done.inds_used
                       /\ paragraph_elem' = Append(paragraph_elem, done.div)
                       /\ elem_ix' = elem_ix + 1
                       /\ UNCHANGED <<pc, error>>
             ELSE /\ annotation_inds' = <<>> /\ inds_used' = <<>>
                  /\ paragraph_elem' = Append(paragraph_elem, le)
                  /\ elem_ix' = elem_ix + 1
                  /\ UNCHANGED <<pc, error>>
    /\ UNCHANGED <<song_lines, splitVars, par_ix, columns_div, annotation_section,
                   indexVars, lineVars, loadVars, dateVars, titleVars>>

(* the end of one iteration of "for paragraph in paragraphs":
   columns_div.append(paragraph_elem) *)
CloseParagraph ==
    /\ pc = "render"
    /\ par_ix <= Len(paragraphs)
    /\ elem_ix > Len(paragraphs[par_ix])
    /\ columns_div' = Append(columns_div, paragraph_elem)
    /\ paragraph_elem' = <<>>
    /\ par_ix' = par_ix + 1
    /\ elem_ix' = 1
    /\ UNCHANGED <<pc, error, song_lines, splitVars, line_elem, annotation_inds,
                   inds_used, annotation_section, indexVars, lineVars, loadVars, dateVars, titleVars>>

(* the decimal numeral of n, str(n) *)
RECURSIVE Decimal(_)
Decimal(n) ==
    LET d == <<"0", "1", "2", "3", "4", "5", "6", "7", "8", "9">>
    IN IF n < 10 THEN <<d[n + 1]>> ELSE Decimal(n \div 10) \o <<d[(n % 10) + 1]>>

(* a variant naming the anchors by the index of enumerate, from 0 *)
AnchorNameZeroBased(annotation_num) == Decimal(annotation_num)

(* str(annotation_num + 1): the name and the string of the anchor of the
   footnote at index annotation_num of enumerate(annotations) *)
AnchorName(annotation_num) == Decimal(annotation_num + 1)

(* the annotation section, one named anchor per footnote in list order, and
   the writing of the file *)
Finish ==
    /\ pc = "render"
    /\ par_ix > Len(paragraphs)
    /\ annotation_section' =
           [k \in 1..Len(footnotes) |->
               [name |-> AnchorName(k - 1), text |-> footnotes[k]]]
    /\ pc' = "done"
    /\ UNCHANGED <<error, song_lines, splitVars, par_ix, elem_ix, line_elem,
                   annotation_inds, inds_used, paragraph_elem, columns_div,
                   indexVars, lineVars, loadVars, dateVars, titleVars>>

NextSong == SplitLine \/ EndSplit \/ RenderLine \/ CloseParagraph \/ Finish

SpecSong == InitSong /\ [][NextSong]_vars

----------------------------------------------------------------------------
(* What the claims about htmlify_song speak of *)

(* a footnote definition: "**", digits, "**" at the start of the line, then a
   separator and the text of the note *)
IsFootnoteDefinition(ln) ==
    /\ MatchAt(ln, 1)
    /\ LET e == DigitsEnd(ln, 3) + 1
       IN Len(ln) > e /\ ln[e + 1] \in Whitespace

IsLyricLine(ln) == Strip(ln) # <<>> /\ ~IsFootnoteDefinition(ln)

(* the numbers of the inline markers of the lyric lines, in document order *)
RECURSIVE MarkerSequence(_)
MarkerSequence(ls) ==
    IF ls = <<>> THEN <<>>
    ELSE (IF IsLyricLine(Head(ls)) THEN FindAll(Head(ls)) ELSE <<>>)
             \o MarkerSequence(Tail(ls))

FootnoteCount(ls) == Cardinality({k \in 1..Len(ls) : IsFootnoteDefinition(ls[k])})

(* the length of the markup of the anchors inserted before anchor j *)
RECURSIVE MarkupLenBefore(_, _)
MarkupLenBefore(nums, j) ==
    IF j <= 1 THEN 0
    ELSE MarkupLenBefore(nums, j - 1) + Len(AnchorMarkup(nums[j - 1]))

(* C5: when a line has several insertion points and the anchors are inserted
   from left to right, each offset is used increased by the length of the
   markup inserted before it: the j-th anchor goes in at its offset in the
   stripped line plus the lengths of the anchors inserted earlier. *)
C5_OffsetsShiftedByMarkupLength ==
    (pc \in {"render", "done"} /\ Len(inds_used) >= 2) =>
        LET nums == FindAll(line_elem)
            offs == FindAnnotationIndices(line_elem, nums).indices
        IN \A j \in 1..Len(inds_used) :
               inds_used[j] = offs[j] + MarkupLenBefore(nums, j)

(* C6: when htmlify_song has processed all the lines of a song without
   failing, the numbers of the inline markers, in document order, are
   1, 2, ..., N, with N the number of footnote definitions. *)
C6_MarkersNumberedAsFootnotes ==
    pc = "done" =>
        MarkerSequence(song_lines)
            = [k \in 1..FootnoteCount(song_lines) |-> Decimal(k)]

(* C7: a line with two or more inline markers is rejected before any offset
   is computed: htmlify_song stops there with
   MultipleAnnotationsPerLineUnsupported, and no offset of that line is
   returned or used. *)
C7_MultiMarkerLineRejected ==
    Len(FindAll(line_elem)) >= 2 =>
        /\ pc = "raised"
        /\ error = "MultipleAnnotationsPerLineUnsupported"
        /\ annotation_inds = <<>>
        /\ inds_used = <<>>

(* the lines of all the paragraphs, in order *)
RECURSIVE Flatten(_)
Flatten(ps) == IF ps = <<>> THEN <<>> ELSE Head(ps) \o Flatten(Tail(ps))

(* the lyric stream read so far: the lines put into paragraphs *)
LyricStream == Flatten(paragraphs) \o current_paragraph

(* the stripped lines among the first n lines of ls that are not blank and
   for which IsNote does not hold *)
LyricLinesOf(ls, n, IsNote(_)) ==
    LET kept == SelectSeq(SubSeq(ls, 1, n),
                          LAMBDA l : Strip(l) # <<>> /\ ~IsNote(l))
    IN [k \in 1..Len(kept) |-> Strip(kept[k])]

NoteCountOf(ls, n, IsNote(_)) ==
    Cardinality({k \in 1..n : Strip(ls[k]) # <<>> /\ IsNote(ls[k])})

BeginsWithTwoStars(ln) == Len(ln) >= 2 /\ SubSeq(ln, 1, 2) = <<"*", "*">>

(* C16: of the lines read so far, those put on the footnote list are exactly
   the footnote definitions ("**", digits, "**", a separator and the note
   text), and every other non-blank line is in the lyric stream. *)
C16_FootnoteIffMarkerPrefixed ==
    pc = "split" =>
        /\ LyricStream = LyricLinesOf(song_lines, line_ind, IsFootnoteDefinition)
        /\ Len(footnotes) = NoteCountOf(song_lines, line_ind, IsFootnoteDefinition)

(* C16 as amended: of the non-blank lines read so far, those put on the
   footnote list are exactly the ones that begin with "**", whatever follows,
   and every other non-blank line is in the lyric stream. *)
C16_FootnoteIffTwoStars ==
    pc = "split" =>
        /\ LyricStream = LyricLinesOf(song_lines, line_ind, BeginsWithTwoStars)
        /\ Len(footnotes) = NoteCountOf(song_lines, line_ind, BeginsWithTwoStars)

C16_Witness ==
    /\ pc = "split"
    /\ line_ind = 2
    /\ BeginsWithTwoStars(song_lines[1])
    /\ ~IsFootnoteDefinition(song_lines[1])
    /\ FindAll(song_lines[2]) # <<>>
    /\ Len(footnotes) = 1
    /\ LyricStream = <<song_lines[2]>>

(* every line of ls is a footnote definition if and only if it begins
   with "**" *)
PlainFootnotes(ls) ==
    \A k \in 1..Len(ls) : BeginsWithTwoStars(ls[k]) <=> IsFootnoteDefinition(ls[k])

(* C17: once the lines of the text are read, the paragraphs, flattened, are
   the non-blank lines of the text that are not footnote definitions, in
   document order, whatever the kind of the last line of the text. *)
C17_ParagraphsHoldEveryLyricLine ==
    (pc \in {"render", "done"} /\ PlainFootnotes(song_lines)) =>
        Flatten(paragraphs)
            = LyricLinesOf(song_lines, Len(song_lines), IsFootnoteDefinition)


(* the footnote definition lines among the first n lines of the text, in
   the order of the text *)
DefinitionLines(n) == SelectSeq(SubSeq(song_lines, 1, n), IsFootnoteDefinition)

(* the text of a footnote definition: what follows the separator that
   stands after "**", digits, "**" *)
NoteText(ln) ==
    LET s == Strip(ln)
    IN SubSeq(s, DigitsEnd(s, 3) + 3, Len(s))

(* C21: footnote definitions are numbered by encounter order only: while the
   text is read the footnote list holds, in the order of the text, the note
   texts of the definition lines read so far, and in the finished page the
   k-th definition line has anchor name k, whatever number is written
   between its "**". *)
C21_NumberedByEncounterOrder ==
    PlainFootnotes(song_lines) =>
        /\ pc = "split" =>
               footnotes = [k \in 1..Len(DefinitionLines(line_ind)) |->
                               NoteText(DefinitionLines(line_ind)[k])]
        /\ pc = "done" =>
               annotation_section
                   = [k \in 1..Len(DefinitionLines(Len(song_lines))) |->
                         [name |-> Decimal(k),
                          text |-> NoteText(DefinitionLines(Len(song_lines))[k])]]

C21_Witness ==
    /\ pc = "done"
    /\ PlainFootnotes(song_lines)
    /\ Len(song_lines) = 3
    /\ FindAll(song_lines[2]) = <<<<"2">>>>
    /\ FindAll(song_lines[3]) = <<<<"1">>>>
    /\ annotation_section = << [name |-> <<"1">>, text |-> <<"y">>],
                               [name |-> <<"2">>, text |-> <<"x">>] >>

(* the positions in the text of its lyric lines, in order *)
LyricPositions ==
    SelectSeq([k \in 1..Len(song_lines) |-> k],
              LAMBDA k : IsLyricLine(song_lines[k]))

(* a blank line lies between the lines at positions a and b of the text *)
BlankBetween(a, b) ==
    \E k \in (a + 1)..(b - 1) : Strip(song_lines[k]) = <<>>

(* the number of lines in the first p paragraphs *)
LinesUpTo(p) == Len(Flatten(SubSeq(paragraphs, 1, p)))

(* the paragraph that holds the j-th line of the flattened paragraphs,
   0 when there is no such line *)
ParagraphOf(j) ==
    IF j > LinesUpTo(Len(paragraphs)) THEN 0
    ELSE CHOOSE p \in 1..Len(paragraphs) : LinesUpTo(p - 1) < j /\ j <= LinesUpTo(p)

(* C22: once the lines of the text are read, two lyric lines that follow one
   another are in the same paragraph if and only if no blank line lies
   between them in the text; footnote definitions between them do not split
   the paragraph. *)
C22_SameParagraphIffNoBlankBetween ==
    (pc \in {"render", "done"} /\ PlainFootnotes(song_lines)) =>
        \A j \in 1..(Len(LyricPositions) - 1) :
            (ParagraphOf(j) # 0 /\ ParagraphOf(j) = ParagraphOf(j + 1))
                <=> ~BlankBetween(LyricPositions[j], LyricPositions[j + 1])

(* C30: no paragraph of the paragraph split is empty, whatever blank lines
   the text has. *)
C30_NoEmptyParagraph ==
    \A p \in 1..Len(paragraphs) : paragraphs[p] # <<>>

=============================================================================
